---------------------------- MODULE Spec2Model ----------------------------
(***************************************************************************)
(* Model of the ISO mount orchestration of mounter-elite-plus              *)
(* (src/src/isocmd/mount.cpp): the selection parser and task submission of *)
(* processAndMountIsoFiles, mountAllIsoFiles, the per-image mount engine   *)
(* mountIsoFile, the worker pool and the progress thread, with the message *)
(* keys built by extractDirectoryAndFilename.                              *)
(*                                                                         *)
(* Strings are sequences of one-character strings.                         *)
(***************************************************************************)
EXTENDS Integers, Sequences, FiniteSets, TLC

(***************************************************************************)
(* Bounds of the model                                                     *)
(***************************************************************************)
\* Longest candidate list (isoFiles.size())
NumIso == 2
\* Most tokens in one selection line
MaxTokens == 2
\* Most environment faults in one run: a throwing fs::exists, a failing
\* fs::create_directory, a null mnt_new_context
MaxFaults == 1
\* Most orchestration calls the caller's loop makes in the specification of
\* sequential calls
MaxCalls == 2

(***************************************************************************)
(* Program constants                                                       *)
(***************************************************************************)
\* headers.h (not in src/): the configured concurrency ceiling
maxThreads == 2
\* INT_MAX of the int std::stoi returns
IntMax == 2147483647
\* extractDirectoryAndFilename: std::size_t maxComponentSize = 28
maxComponentSize == 28
\* mountIsoFile: for (int i = 0; i < 5; ++i) shortHash += ...
ShortHashLen == 5
\* mountIsoFile: base36Chars.size(), the divisor of hashValue % 36
HashBase == 36

(***************************************************************************)
(* Characters and strings                                                  *)
(***************************************************************************)
Digits == <<"0", "1", "2", "3", "4", "5", "6", "7", "8", "9">>

DigitChars == {Digits[i] : i \in 1..10}

\* ::isdigit
isdigit(c) == c \in DigitChars

DigitVal(c) == (CHOOSE i \in 1..10 : Digits[i] = c) - 1

\* std::all_of(s.begin(), s.end(), ::isdigit): true of the empty string
AllDigits(s) == \A i \in 1..Len(s) : isdigit(s[i])

\* std::count(s.begin(), s.end(), c)
CountChar(s, c) == Cardinality({i \in 1..Len(s) : s[i] = c})

\* s.find(c, from): the first position >= from (1-based) holding a character
\* of cs, 0 for npos
FindFirstOf(s, cs, from) ==
    IF \E i \in from..Len(s) : s[i] \in cs
    THEN CHOOSE i \in from..Len(s) : s[i] \in cs /\ \A j \in from..(i - 1) : s[j] \notin cs
    ELSE 0

\* s.find(pat): the first position where pat occurs in s, 0 for npos
FindSub(s, pat) ==
    LET hits == {i \in 1..(Len(s) - Len(pat) + 1) : SubSeq(s, i, i + Len(pat) - 1) = pat}
    IN  IF hits = {} THEN 0 ELSE CHOOSE i \in hits : \A j \in hits : i <= j

\* s.substr(0, n)
Prefix(s, n) == SubSeq(s, 1, IF n < Len(s) THEN n ELSE Len(s))

RECURSIVE Rep(_, _)
\* std::string(n, c)
Rep(c, n) == IF n = 0 THEN <<>> ELSE <<c>> \o Rep(c, n - 1)

RECURSIVE to_string(_)
\* std::to_string of a non-negative int
to_string(n) == IF n < 10 THEN <<Digits[n + 1]>> ELSE to_string(n \div 10) \o <<Digits[(n % 10) + 1]>>

RECURSIVE StoiDigits(_, _, _)
\* The digit loop of std::stoi (strtol): the longest digit prefix of s from
\* position i, accumulated in acc; -1 when the value does not fit an int
StoiDigits(s, i, acc) ==
    IF i > Len(s) \/ ~isdigit(s[i]) THEN acc
    ELSE LET d == DigitVal(s[i])
         IN  IF acc > (IntMax - d) \div 10 THEN -1
             ELSE StoiDigits(s, i + 1, acc * 10 + d)

\* std::stoi(s) for the strings the parser hands it (no '-' can reach it):
\* an optional '+', then the longest digit prefix; invalid_argument when no
\* digit is found, out_of_range when the value exceeds INT_MAX
Stoi(s) ==
    LET first == IF Len(s) >= 1 /\ s[1] = "+" THEN 2 ELSE 1
    IN  IF first > Len(s) \/ ~isdigit(s[first])
        THEN [ok |-> FALSE, err |-> "invalid_argument", val |-> 0]
        ELSE LET v == StoiDigits(s, first, 0)
             IN  IF v = -1 THEN [ok |-> FALSE, err |-> "out_of_range", val |-> 0]
                 ELSE [ok |-> TRUE, err |-> "none", val |-> v]

\* isAllZeros (headers.h, not in src/): every character is '0'
isAllZeros(s) == \A i \in 1..Len(s) : s[i] = "0"

\* isNumeric (headers.h, not in src/): every character is a digit
isNumeric(s) == AllDigits(s)

(***************************************************************************)
(* Paths, mount points and message keys                                    *)
(***************************************************************************)
base36Chars ==
    <<"0", "1", "2", "3", "4", "5", "6", "7", "8", "9", "a", "b", "c", "d", "e", "f", "g", "h",
      "i", "j", "k", "l", "m", "n", "o", "p", "q", "r", "s", "t", "u", "v", "w", "x", "y", "z">>

\* The last position of c in s, 0 when absent
LastPos(s, c) ==
    IF \E i \in 1..Len(s) : s[i] = c
    THEN CHOOSE i \in 1..Len(s) : s[i] = c /\ \A j \in (i + 1)..Len(s) : s[j] # c
    ELSE 0

\* std::filesystem::path::filename(): what follows the last '/'
PathFilename(path) == SubSeq(path, LastPos(path, "/") + 1, Len(path))

\* std::filesystem::path::stem(): the filename without its last extension;
\* "." and ".." and a name whose only dot leads it are kept whole
PathStem(path) ==
    LET f == PathFilename(path)
        d == LastPos(f, ".")
    IN  IF f = <<".">> \/ f = <<".", ".">> \/ d <= 1 THEN f ELSE SubSeq(f, 1, d - 1)

RECURSIVE ShortHash(_, _)
\* The loop of mountIsoFile: i characters base36Chars[hashValue % 36], with
\* hashValue /= 36 after each
ShortHash(hashValue, i) ==
    IF i = 0 THEN <<>>
    ELSE <<base36Chars[(hashValue % HashBase) + 1]>> \o ShortHash(hashValue \div HashBase, i - 1)

MntPrefix == <<"/", "m", "n", "t", "/", "i", "s", "o", "_">>

\* mountPoint = "/mnt/iso_" + stem + "_" + shortHash, for the value h that
\* std::hash<std::string> gives the full path
MountPointOf(path, h) == MntPrefix \o PathStem(path) \o <<"_">> \o ShortHash(h, ShortHashLen)

\* One component of extractDirectoryAndFilename: cut at the first space when
\* it lies within maxComponentSize, else at maxComponentSize characters
CutComponent(component) ==
    LET spacePos == FindFirstOf(component, {" "}, 1) - 1
    IN  IF spacePos >= 0 /\ spacePos <= maxComponentSize
        THEN Prefix(component, spacePos)
        ELSE Prefix(component, maxComponentSize)

RECURSIVE DirStream(_, _)
\* The while loop of extractDirectoryAndFilename from position lastSlashPos
\* (1-based): every component before a slash, cut, followed by '/'
DirStream(path, lastSlashPos) ==
    LET currentSlashPos == FindFirstOf(path, {"/", "\\"}, lastSlashPos)
    IN  IF currentSlashPos = 0 THEN <<>>
        ELSE CutComponent(SubSeq(path, lastSlashPos, currentSlashPos - 1)) \o <<"/">>
             \o DirStream(path, currentSlashPos + 1)

RECURSIVE LastSlashEnd(_, _)
\* lastSlashPos when the loop of extractDirectoryAndFilename ends
LastSlashEnd(path, lastSlashPos) ==
    LET currentSlashPos == FindFirstOf(path, {"/", "\\"}, lastSlashPos)
    IN  IF currentSlashPos = 0 THEN lastSlashPos ELSE LastSlashEnd(path, currentSlashPos + 1)

\* directory.replace(pos, oldDir.length(), newDir) at the first occurrence
ReplaceFirst(s, oldDir, newDir) ==
    LET pos == FindSub(s, oldDir)
    IN  IF pos = 0 THEN s
        ELSE SubSeq(s, 1, pos - 1) \o newDir \o SubSeq(s, pos + Len(oldDir), Len(s))

\* extractDirectoryAndFilename: the abbreviated directory and the file name
extractDirectoryAndFilename(path) ==
    LET stream == DirStream(path, 1)
        directory == IF stream # <<>> THEN SubSeq(stream, 1, Len(stream) - 1) ELSE stream
        replaced == ReplaceFirst(ReplaceFirst(directory, <<"/", "h", "o", "m", "e">>, <<"~">>),
                                 <<"/", "r", "o", "o", "t">>, <<"/", "R">>)
    IN  <<replaced, SubSeq(path, LastSlashEnd(path, 1), Len(path))>>

\* isoDirectory + "/" + isoFilename, as every message of mountIsoFile shows it
DisplayName(path) ==
    LET p == extractDirectoryAndFilename(path) IN p[1] \o <<"/">> \o p[2]

(***************************************************************************)
(* Selection parsing (processAndMountIsoFiles)                             *)
(***************************************************************************)
RECURSIVE RangeTokens(_, _, _, _)
\* The for loop of the pre-scan over a range: std::to_string(i) is inserted
\* for every i # 0 until the set holds maxThreads tokens
RangeTokens(i, endNum, step, toks) ==
    IF (step > 0 /\ i > endNum) \/ (step < 0 /\ i < endNum) THEN toks
    ELSE LET ins == IF i # 0 THEN toks \cup {to_string(i)} ELSE toks
         IN  IF Cardinality(ins) >= maxThreads THEN ins
             ELSE RangeTokens(i + step, endNum, step, ins)

\* One iteration of the pre-scan loop on tokenCount: the token set after it,
\* whether the loop breaks, and whether a std::stoi threw (nothing catches it)
PreScanToken(tokenCount, toks, n) ==
    LET dashPos == FindFirstOf(tokenCount, {"-"}, 1)
        same == [tokens |-> toks, brk |-> FALSE, threw |-> FALSE]
    IN  IF tokenCount[1] = "-" THEN same
        ELSE IF CountChar(tokenCount, "-") > 1 THEN same
        ELSE IF dashPos # 0
        THEN LET start == SubSeq(tokenCount, 1, dashPos - 1)
                 end == SubSeq(tokenCount, dashPos + 1, Len(tokenCount))
             IN  IF AllDigits(start) /\ AllDigits(end)
                 THEN IF ~Stoi(start).ok \/ ~Stoi(end).ok
                      THEN [tokens |-> toks, brk |-> TRUE, threw |-> TRUE]
                      ELSE LET startNum == Stoi(start).val
                               endNum == Stoi(end).val
                           IN  IF startNum <= n /\ endNum <= n
                               THEN [tokens |-> RangeTokens(startNum, endNum,
                                                   IF startNum <= endNum THEN 1 ELSE -1, toks),
                                     brk |-> FALSE, threw |-> FALSE]
                               ELSE same
                 ELSE same
        ELSE IF AllDigits(tokenCount)
        THEN IF ~Stoi(tokenCount).ok
             THEN [tokens |-> toks, brk |-> TRUE, threw |-> TRUE]
             ELSE LET num == Stoi(tokenCount).val
                  IN  IF num > 0 /\ num <= n
                      THEN [tokens |-> toks \cup {tokenCount},
                            brk |-> Cardinality(toks \cup {tokenCount}) >= maxThreads,
                            threw |-> FALSE]
                      ELSE same
        ELSE same

RECURSIVE PreScan(_, _, _, _)
\* while (issCount >> tokenCount && tokens.size() < maxThreads) from token k
PreScan(line, k, toks, n) ==
    IF k > Len(line) \/ Cardinality(toks) >= maxThreads
    THEN [tokens |-> toks, threw |-> FALSE]
    ELSE LET r == PreScanToken(line[k], toks, n)
         IN  IF r.brk THEN [tokens |-> r.tokens, threw |-> r.threw]
             ELSE PreScan(line, k + 1, r.tokens, n)

\* The messages of addError
InvalidIndexMsg(text) == [kind |-> "InvalidIndex", text |-> text]

InvalidInputMsg(text) == [kind |-> "InvalidInput", text |-> text]

InvalidRangeMsg(text) == [kind |-> "InvalidRange", text |-> text]

\* Mutant of RangeIndices: a descending range is not expanded
RangeIndices_AscendingOnly(i, end, step) ==
    IF step < 0 \/ i > end THEN <<>> ELSE [k \in 1..(end - i + 1) |-> i + k - 1]

RECURSIVE RangeIndices(_, _, _)
\* for (int i = start; (start <= end) ? (i <= end) : (i >= end); i += step)
RangeIndices(i, end, step) ==
    IF (step > 0 /\ i > end) \/ (step < 0 /\ i < end) THEN <<>>
    ELSE <<i>> \o RangeIndices(i + step, end, step)

\* The test that lets a token with a hyphen through to std::stoi: no second
\* hyphen, the hyphen neither first nor last, a digit on each side of it
RangeShapeOk(token, dashPos) ==
    /\ FindFirstOf(token, {"-"}, dashPos + 1) = 0
    /\ dashPos # 1
    /\ dashPos # Len(token)
    /\ isdigit(token[dashPos - 1])
    /\ isdigit(token[dashPos + 1])

\* One iteration of the main loop on token, given the ranges seen so far:
\*   stop    the lone "/" that ends the scan
\*   error   addError(msg)
\*   range   a valid range: its pair and its indices in order
\*   index   a valid single index
\*   none    nothing is done
\*   throw   std::stoi threw out_of_range where nothing catches it
TokenEffect(token, n) ==
    LET dashPos == FindFirstOf(token, {"-"}, 1)
        none == [kind |-> "none", msg |-> <<>>, pair |-> <<0, 0>>, idx |-> <<>>]
    IN  IF token = <<"/">> THEN [none EXCEPT !.kind = "stop"]
        ELSE IF isAllZeros(token)
        THEN [none EXCEPT !.kind = "error", !.msg = InvalidIndexMsg(<<"0">>)]
        ELSE IF dashPos # 0
        THEN IF ~RangeShapeOk(token, dashPos)
             THEN [none EXCEPT !.kind = "error", !.msg = InvalidInputMsg(token)]
             ELSE LET s == Stoi(SubSeq(token, 1, dashPos - 1))
                      e == Stoi(SubSeq(token, dashPos + 1, Len(token)))
                  IN  IF ~s.ok
                      THEN [none EXCEPT !.kind = "error",
                                        !.msg = IF s.err = "invalid_argument"
                                                THEN InvalidInputMsg(token)
                                                ELSE InvalidRangeMsg(token)]
                      ELSE IF ~e.ok
                      THEN [none EXCEPT !.kind = "error",
                                        !.msg = IF e.err = "invalid_argument"
                                                THEN InvalidInputMsg(token)
                                                ELSE InvalidRangeMsg(token)]
                      ELSE IF s.val < 1 \/ s.val > n \/ e.val < 1 \/ e.val > n
                      THEN [none EXCEPT !.kind = "error",
                                        !.msg = InvalidRangeMsg(to_string(s.val) \o <<"-">>
                                                                \o to_string(e.val))]
                      ELSE [none EXCEPT !.kind = "range", !.pair = <<s.val, e.val>>,
                                        !.idx = RangeIndices(s.val, e.val,
                                                    IF s.val <= e.val THEN 1 ELSE -1)]
        ELSE IF isNumeric(token)
        THEN LET num == Stoi(token)
             IN  IF ~num.ok THEN [none EXCEPT !.kind = "throw"]
                 ELSE IF num.val >= 1 /\ num.val <= n
                 THEN [none EXCEPT !.kind = "index", !.idx = <<num.val>>]
                 ELSE IF num.val > n
                 THEN [none EXCEPT !.kind = "error",
                                   !.msg = InvalidIndexMsg(to_string(num.val))]
                 ELSE none
        ELSE [none EXCEPT !.kind = "error", !.msg = InvalidInputMsg(token)]

RECURSIVE NewIndices(_, _)
\* The indices of idx, in order, for which processedIndices.insert(i).second
\* is true: those not in seen and not earlier in idx
NewIndices(idx, seen) ==
    IF idx = <<>> THEN <<>>
    ELSE IF Head(idx) \in seen THEN NewIndices(Tail(idx), seen)
    ELSE <<Head(idx)>> \o NewIndices(Tail(idx), seen \cup {Head(idx)})

SeqToSet(q) == {q[i] : i \in 1..Len(q)}

\* Mutant of fsTypes: "auto" is tried first
fsTypes_AutoFirst == <<"auto", "iso9660", "udf", "hfsplus", "rockridge", "joliet", "isofs">>

(***************************************************************************)
(* The mount engine's tables and messages (mountIsoFile)                   *)
(***************************************************************************)
fsTypes == <<"iso9660", "udf", "hfsplus", "rockridge", "joliet", "isofs", "auto">>

\* The keys of fsTypeToModule
fsTypeToModule == {"iso9660", "udf", "hfsplus", "isofs"}

Msg(kind, iso, at, fs) == [kind |-> kind, iso |-> iso, at |-> at, fs |-> fs]

\* "ISO: '<dir>/<file>' already M@: '<dir>/<file>'."
SkippedMsg(path, mp) == Msg("alreadyMounted", DisplayName(path), DisplayName(mp), "")

\* "Failed to mount: '<dir>/<file>'. Root privileges are required."
RootMsg(path) == Msg("rootRequired", DisplayName(path), <<>>, "")

\* "Failed to create mount point: '<mountPoint>'. Error: ..."
CreateMsg(mp) == Msg("createMountPoint", <<>>, mp, "")

\* "Failed to initialize mount context for: '<dir>/<file>'."
ContextMsg(path) == Msg("mountContext", DisplayName(path), <<>>, "")

\* "ISO: '<dir>/<file>' M@: '<dir>/<file>'. {<fsType>}"
MountedMsg(path, mp, fs) == Msg("mounted", DisplayName(path), DisplayName(mp), fs)

\* "Failed to mount: '<dir>/<file>'. {badFS}"
BadFsMsg(path) == Msg("badFS", DisplayName(path), <<>>, "")

(***************************************************************************)
(* The inputs the model draws from                                         *)
(***************************************************************************)
PathA == <<"/", "a", "/", "x", ".", "i", "s", "o">>

PathC == <<"/", "d", "/", "m", " ", "1", "/", "a", ".", "i", "s", "o">>

PathD == <<"/", "d", "/", "m", " ", "2", "/", "a", ".", "i", "s", "o">>

\* The cache's paths, in the order sortFilesCaseInsensitive gives them
PathPool == <<PathA, PathC, PathD>>

PathSet == SeqToSet(PathPool)

PoolIndex(path) == CHOOSE k \in 1..Len(PathPool) : PathPool[k] = path

RECURSIVE SortedSeq(_)
\* The paths of pool positions ks in increasing order
SortedSeq(ks) ==
    IF ks = {} THEN <<>>
    ELSE LET k == CHOOSE x \in ks : \A y \in ks : x <= y
         IN  <<PathPool[k]>> \o SortedSeq(ks \ {k})

\* Every candidate list of 1..NumIso distinct paths of the pool
CandidateLists ==
    {SortedSeq(ks) : ks \in {x \in SUBSET (1..Len(PathPool)) : x # {} /\ Cardinality(x) <= NumIso}}

\* std::hash<std::string> is implementation-defined: the model lets it be a
\* function that keeps the pool's paths apart in the 5 digits kept, or one
\* whose values differ only above them (36^5 = 60466176)
HashDistinct == [p \in PathSet |-> PoolIndex(p)]

HashCongruent == [p \in PathSet |-> 7 + PoolIndex(p) * 60466176]

HasherChoices == {HashDistinct, HashCongruent}

\* The first position of fsTypes whose mount call succeeds for an image, 0
\* when none does
FsOutcomes == {0, 2}

Tok1 == <<"1">>

Tok2 == <<"2">>

TokRange12 == <<"1", "-", "2">>

TokRange21 == <<"2", "-", "1">>

TokAll == <<"0", "0">>

Tok9 == <<"9">>

Tok0 == <<"0">>

Tok01 == <<"0", "1">>

TokA == <<"a">>

TokSlash == <<"/">>

TokLeadDash == <<"-", "1">>

TokTrailDash == <<"1", "-">>

TokTwoDash == <<"1", "-", "-", "2">>

TokRange12a == <<"1", "-", "2", "a">>

TokRangePlus == <<"+", "1", "-", "2">>

TokRange02 == <<"0", "-", "2">>

TokRange19 == <<"1", "-", "9">>

\* 9999999999 does not fit an int
TokBig == Rep("9", 10)

TokRangeBig == <<"1", "-">> \o TokBig

\* The tokens of the selection-centred specification
SelTokens ==
    {Tok1, Tok2, Tok9, Tok0, Tok01, TokA, TokSlash, TokLeadDash, TokTrailDash, TokTwoDash,
     TokRange12, TokRange21, TokRange12a, TokRangePlus, TokRange02, TokRange19, TokBig,
     TokRangeBig}

RECURSIVE LinesOf(_, _)
\* Every line of 1..n tokens of toks
LinesOf(toks, n) ==
    IF n = 0 THEN {}
    ELSE LET shorter == LinesOf(toks, n - 1)
         IN  {<<t>> : t \in toks} \cup shorter \cup {Append(l, t) : l \in shorter, t \in toks}

\* The token "a-b"
RangeToken(a, b) == to_string(a) \o <<"-">> \o to_string(b)

\* The lines of one range token with both ends in 1..NumIso
RangeLines == {<<RangeToken(a, b)>> : a, b \in 1..NumIso}

\* Lines with tokens on both sides of a lone "/"
SlashLines == {<<Tok1, TokSlash, t>> : t \in {Tok2, TokA, TokTrailDash}}

\* The lines typed at the prompt in the selection-centred specification: a
\* lone "/" enters the filter mode and is not passed on
SelLines ==
    (LinesOf(SelTokens, MaxTokens) \ {<<TokSlash>>}) \cup {<<TokAll>>} \cup SlashLines
        \cup RangeLines

\* The lines typed at the prompt in the engine-centred specification
EngineLines == {<<TokAll>>, <<Tok2, TokRange21>>}

(***************************************************************************)
(* State                                                                   *)
(***************************************************************************)
VARIABLES
    isoFiles,            \* the candidate list
    hasher,              \* std::hash<std::string> on the paths
    goodFs,              \* per candidate: the fsTypes position that mounts it, 0 for none
    euid,                \* geteuid()
    parentNodev,         \* ST_NODEV of the filesystem holding /mnt
    verbose,             \* the global verbose setting
    dirs,                \* the mount-point directories that exist
    mounted,             \* the mount points something is mounted on
    faultsLeft,          \* environment faults that may still occur
    modFaultsLeft,       \* kernel-module loads that may still fail
    Mutex4Low,           \* the worker holding the lock of the outcome sets, 0 for none
    callsLeft,           \* orchestration calls the caller's loop may still make
    input,               \* the line read at the prompt, split at white space
    entry,               \* "sel" (processAndMountIsoFiles), "all" (mountAllIsoFiles)
    inputBuffer,         \* the buffer readline returned: its state, the calls of free
                         \* on it, whether it was read after a free
    pc,                  \* the main thread's position
    pos,                 \* the token being scanned / the future being waited
    tokens,              \* the pre-scan's token set
    numThreads,          \* the pool's worker count
    processedIndices,
    validIndices,
    processedRanges,
    totalTasks,
    completedTasks,      \* completedTasks / completedIsos
    activeTaskCount,
    errorQueue,
    isProcessingComplete, \* isProcessingComplete / isComplete
    progress,            \* the progress thread: none, running, exited, joined
    queue,               \* the pool's FIFO of submitted tasks
    ready,               \* the tasks whose future is ready
    workers,             \* per worker: its task and its position in it
    mountedFiles,
    skippedMessages,
    mountedFails,
    uniqueErrorMessages,
    hist                 \* per candidate, for this call: what the engine did

envVars == <<isoFiles, hasher, goodFs, euid, parentNodev, verbose>>
osVars == <<envVars, modFaultsLeft>>
fsVars == <<dirs, mounted, faultsLeft>>
callVars == <<callsLeft, input, entry, inputBuffer>>
scanVars == <<tokens, numThreads, processedIndices, processedRanges, errorQueue>>
countVars == <<totalTasks, completedTasks, activeTaskCount>>
setVars == <<mountedFiles, skippedMessages, mountedFails>>

vars == <<isoFiles, hasher, goodFs, euid, parentNodev, verbose, dirs, mounted, faultsLeft,
          modFaultsLeft, Mutex4Low, callsLeft, input,
          entry, inputBuffer, pc, pos, tokens, numThreads, processedIndices, validIndices, processedRanges,
          totalTasks, completedTasks, activeTaskCount, errorQueue, isProcessingComplete,
          progress, queue, ready, workers, mountedFiles, skippedMessages, mountedFails,
          uniqueErrorMessages, hist>>

N == Len(isoFiles)

Min(a, b) == IF a <= b THEN a ELSE b

\* Mutant of MountPoint: the hash is seeded anew for every call
MountPoint_SeededPerCall(path) == MountPointOf(path, hasher[path] + callsLeft)

\* The mount point mountIsoFile derives for a path
MountPoint(path) == MountPointOf(path, hasher[path])

\* Mutant of isAlreadyMounted: the ST_NODEV test is read the wrong way round
isAlreadyMounted_Inverted(mp) ==
    IF mp \notin dirs THEN FALSE
    ELSE IF mp \in mounted THEN FALSE
    ELSE parentNodev

\* Mutant of isAlreadyMounted: statvfs is taken to fail on every path
isAlreadyMounted_StatFails(mp) == FALSE

\* isAlreadyMounted: statvfs fails on a missing path; on an existing one it
\* reports the flags of the filesystem the path lies in, which is the mounted
\* image (mounted "loop,ro", so without ST_NODEV) or the one holding /mnt
isAlreadyMounted(mp) ==
    IF mp \notin dirs THEN FALSE
    ELSE IF mp \in mounted THEN TRUE
    ELSE ~parentNodev

\* No insertion is pending
NoPut == [set |-> "", msg |-> Msg("", <<>>, <<>>, ""), next |-> ""]

IdleWorker == [task |-> 0, step |-> "idle", fs |-> 0, put |-> NoPut]

NoHist == [calls |-> 0, mounts |-> 0, loads |-> 0, creates |-> 0, sets |-> {},
           wasMounted |-> FALSE, tried |-> <<>>, threw |-> FALSE,
           mps |-> {}, prev |-> {}, ins |-> 0, loadFailed |-> {}, nullCtx |-> FALSE,
           createFailed |-> FALSE]

\* The record of a candidate when the next call begins: what the engine did is
\* forgotten, but not the mount points derived for the path in earlier calls
\* (mps) nor the sets the call that has just ended put it into (prev)
NextHist(h) == [NoHist EXCEPT !.mps = h.mps, !.prev = h.sets]

\* The locals of one orchestration call, as constructed
FreshCall ==
    /\ pos = 1
    /\ tokens = {}
    /\ numThreads = 0
    /\ processedIndices = {}
    /\ validIndices = {}
    /\ processedRanges = {}
    /\ totalTasks = 0
    /\ completedTasks = 0
    /\ activeTaskCount = 0
    /\ errorQueue = <<>>
    /\ isProcessingComplete = FALSE
    /\ progress = "none"
    /\ queue = <<>>
    /\ ready = {}
    /\ workers = [w \in 1..maxThreads |-> IdleWorker]

\* The same locals, constructed anew for the next call
ResetCall ==
    /\ pos' = 1
    /\ tokens' = {}
    /\ numThreads' = 0
    /\ processedIndices' = {}
    /\ validIndices' = {}
    /\ processedRanges' = {}
    /\ totalTasks' = 0
    /\ completedTasks' = 0
    /\ activeTaskCount' = 0
    /\ errorQueue' = <<>>
    /\ isProcessingComplete' = FALSE
    /\ progress' = "none"
    /\ queue' = <<>>
    /\ ready' = {}
    /\ workers' = [w \in 1..maxThreads |-> IdleWorker]

\* No line has been read yet
NoBuffer == [state |-> "none", frees |-> 0, readFreed |-> FALSE]

\* char* input = readline(...): a buffer freshly allocated
LiveBuffer == [state |-> "live", frees |-> 0, readFreed |-> FALSE]

\* free(input)
FreeBuffer(b) == [b EXCEPT !.state = "freed", !.frees = @ + 1]

\* input is read (strcmp(input, ...), input[0])
ReadBuffer(b) == [b EXCEPT !.readFreed = @ \/ b.state = "freed"]

\* select_and_mount_files_by_number before its first prompt
InitCaller ==
    /\ input = <<>>
    /\ entry = "none"
    /\ inputBuffer = NoBuffer
    /\ pc = "prompt"
    /\ FreshCall
    /\ mountedFiles = {}
    /\ skippedMessages = {}
    /\ mountedFails = {}
    /\ uniqueErrorMessages = {}
    /\ Mutex4Low = 0
    /\ hist = [i \in 1..N |-> NoHist]

Init ==
    /\ isoFiles \in CandidateLists
    /\ hasher \in HasherChoices
    /\ goodFs \in [1..N -> FsOutcomes]
    /\ euid \in {0, 1000}
    /\ parentNodev \in BOOLEAN
    /\ verbose = TRUE
    /\ mounted \in {{}, {MountPoint(isoFiles[1])}}
    /\ dirs = mounted
    /\ faultsLeft = MaxFaults
    /\ modFaultsLeft = 0
    /\ callsLeft = 1
    /\ InitCaller

(***************************************************************************)
(* The caller and the main thread                                          *)
(***************************************************************************)
\* select_and_mount_files_by_number: a line is read; "00" goes to
\* mountAllIsoFiles, any other to processAndMountIsoFiles
Prompt(lines) ==
    /\ pc = "prompt"
    /\ callsLeft > 0
    /\ \E line \in lines :
        /\ input' = line
        /\ entry' = IF line = <<TokAll>> THEN "all" ELSE "sel"
        /\ pc' = IF line = <<TokAll>> THEN "allStart" ELSE "prescan"
    /\ inputBuffer' = ReadBuffer(LiveBuffer)
    /\ callsLeft' = callsLeft - 1
    /\ ResetCall
    /\ hist' = [i \in 1..N |-> NextHist(hist[i])]
    /\ UNCHANGED <<osVars, Mutex4Low, fsVars, setVars, uniqueErrorMessages>>

\* select_and_mount_files_by_number: the line read is empty or begins with a
\* blank: free(input) and break, the function returns
PromptReturn ==
    /\ pc = "prompt"
    /\ callsLeft > 0
    /\ input' = <<>>
    /\ inputBuffer' = FreeBuffer(ReadBuffer(LiveBuffer))
    /\ pc' = "left"
    /\ UNCHANGED <<osVars, Mutex4Low, fsVars, callsLeft, entry, pos, scanVars, validIndices,
                   countVars, isProcessingComplete, progress, queue, ready, workers,
                   setVars, uniqueErrorMessages, hist>>

\* select_and_mount_files_by_number: the line read is "/": free(input),
\* verboseFiltered = true, and the filter loop is entered
PromptFilter ==
    /\ pc = "prompt"
    /\ callsLeft > 0
    /\ input' = <<TokSlash>>
    /\ entry' = "none"
    /\ inputBuffer' = FreeBuffer(ReadBuffer(LiveBuffer))
    /\ pc' = "filter"
    /\ callsLeft' = callsLeft - 1
    /\ ResetCall
    /\ hist' = [i \in 1..N |-> NextHist(hist[i])]
    /\ UNCHANGED <<osVars, Mutex4Low, fsVars, setVars, uniqueErrorMessages>>

\* select_and_mount_files_by_number: the filter loop is left on an empty
\* search query (verboseFiltered stays true), and the code after it goes on
\* with strcmp(input, "00") on the buffer freed when the loop was entered. What
\* the freed bytes hold is not defined: either they compare equal to "00", and
\* mountAllIsoFiles is called (free(input) follows it), or they do not, and
\* input[0] and strcmp(input, "/") are read before !verboseFiltered ends the
\* iteration
FilterLeave ==
    /\ pc = "filter"
    /\ inputBuffer' = ReadBuffer(inputBuffer)
    /\ \E seesAll \in BOOLEAN :
        IF seesAll
        THEN entry' = "all" /\ pc' = "allStart"
        ELSE entry' = entry /\ pc' = "prompt"
    /\ UNCHANGED <<osVars, Mutex4Low, fsVars, callsLeft, input, pos, scanVars, validIndices,
                   countVars, isProcessingComplete, progress, queue, ready, workers,
                   setVars, uniqueErrorMessages, hist>>

\* processAndMountIsoFiles: the pre-scan loop and the pool's construction
PreScanStep ==
    /\ pc = "prescan"
    /\ LET r == PreScan(input, 1, {}, N)
       IN  IF r.threw
           THEN /\ pc' = "crashed"
                /\ UNCHANGED <<tokens, numThreads>>
           ELSE /\ tokens' = r.tokens
                /\ numThreads' = Min(Cardinality(r.tokens), maxThreads)
                /\ pc' = IF Len(input) = 0 THEN "errors" ELSE "scan"
    /\ UNCHANGED <<osVars, Mutex4Low, fsVars, callVars, pos, processedIndices, validIndices,
                   processedRanges, countVars, errorQueue, isProcessingComplete, progress,
                   queue, ready, workers, setVars, uniqueErrorMessages, hist>>

\* totalTasks and activeTaskCount are raised and a task is enqueued for each
\* index of idx that processedIndices did not hold
Submit(idx) ==
    LET new == NewIndices(idx, processedIndices)
    IN  /\ processedIndices' = processedIndices \cup SeqToSet(new)
        /\ totalTasks' = totalTasks + Len(new)
        /\ activeTaskCount' = activeTaskCount + Len(new)
        /\ queue' = queue \o new

\* processAndMountIsoFiles: one iteration of while (iss >> token)
ScanStep ==
    /\ pc = "scan"
    /\ LET eff == TokenEffect(input[pos], N)
           next == IF pos = Len(input) THEN "errors" ELSE "scan"
       IN  /\ pc' = CASE eff.kind = "stop" -> "errors"
                      [] eff.kind = "throw" -> "crashed"
                      [] OTHER -> next
           /\ pos' = pos + 1
           /\ errorQueue' = IF eff.kind = "error" THEN Append(errorQueue, eff.msg)
                            ELSE errorQueue
           /\ processedRanges' = IF eff.kind = "range" THEN processedRanges \cup {eff.pair}
                                 ELSE processedRanges
           /\ IF eff.kind = "index" \/ (eff.kind = "range" /\ eff.pair \notin processedRanges)
              THEN Submit(eff.idx)
              ELSE UNCHANGED <<processedIndices, totalTasks, activeTaskCount, queue>>
    /\ UNCHANGED <<osVars, Mutex4Low, fsVars, callVars, tokens, numThreads, validIndices, completedTasks,
                   isProcessingComplete, progress, ready, workers, setVars,
                   uniqueErrorMessages, hist>>

\* Mutant of ProgressAfterScan: the progress thread is started whether or not
\* an index was selected
ProgressAfterScan_Always(selected) == "running"

\* processAndMountIsoFiles: if (!processedIndices.empty()) the progress thread
\* is created, once the scan and the merge of the errors are over
ProgressAfterScan(selected) == IF selected THEN "running" ELSE progress

\* processAndMountIsoFiles: the error queue is emptied into
\* uniqueErrorMessages; with an index processed the progress thread is
\* started, else the call returns
MergeErrors ==
    /\ pc = "errors"
    /\ uniqueErrorMessages' = uniqueErrorMessages \cup SeqToSet(errorQueue)
    /\ errorQueue' = <<>>
    /\ progress' = ProgressAfterScan(processedIndices # {})
    /\ pc' = IF processedIndices # {} THEN "waitCheck" ELSE "returned"
    /\ UNCHANGED <<osVars, Mutex4Low, fsVars, callVars, pos, tokens, numThreads, processedIndices,
                   validIndices, processedRanges, countVars, isProcessingComplete, queue,
                   ready, workers, setVars, hist>>

\* Mutant of WaitPredicate: the wait returns at once
WaitPredicate_True == TRUE

\* processAndMountIsoFiles: the predicate of taskCompletionCV.wait,
\* activeTaskCount.load() == 0
WaitPredicate == activeTaskCount = 0

\* taskCompletionCV.wait(lock, pred): the predicate is evaluated
WaitCheck ==
    /\ pc = "waitCheck"
    /\ pc' = IF WaitPredicate THEN "signal" ELSE "toBlock"
    /\ UNCHANGED <<osVars, Mutex4Low, fsVars, callVars, pos, scanVars, validIndices, countVars,
                   isProcessingComplete, progress, queue, ready, workers, setVars,
                   uniqueErrorMessages, hist>>

\* taskCompletionCV.wait(lock, pred): the predicate was false, the thread
\* blocks until notified
WaitBlock ==
    /\ pc = "toBlock"
    /\ pc' = "blocked"
    /\ UNCHANGED <<osVars, Mutex4Low, fsVars, callVars, pos, scanVars, validIndices, countVars,
                   isProcessingComplete, progress, queue, ready, workers, setVars,
                   uniqueErrorMessages, hist>>

\* Mutant of AllTasks: every candidate is enqueued twice
AllTasks_Twice == [k \in 1..(2 * N) |-> ((k - 1) % N) + 1]

\* mountAllIsoFiles: for (const auto& isoFile : isoFiles) enqueues one task
\* per element of the candidate list, in its order
AllTasks == [i \in 1..N |-> i]

\* mountAllIsoFiles: the pool and the progress thread are created and one
\* task per candidate is enqueued
MountAllStart ==
    /\ pc = "allStart"
    /\ numThreads' = Min(N, maxThreads)
    /\ totalTasks' = N
    /\ progress' = "running"
    /\ queue' = AllTasks
    /\ pos' = 1
    /\ pc' = "allWait"
    /\ UNCHANGED <<osVars, Mutex4Low, fsVars, callVars, tokens, processedIndices, validIndices,
                   processedRanges, completedTasks, activeTaskCount, errorQueue,
                   isProcessingComplete, ready, workers, setVars, uniqueErrorMessages, hist>>

\* mountAllIsoFiles: future.wait() on the next future
MountAllWait ==
    /\ pc = "allWait"
    /\ pos \in ready
    /\ pos' = pos + 1
    /\ pc' = IF pos = N THEN "signal" ELSE "allWait"
    /\ UNCHANGED <<osVars, Mutex4Low, fsVars, callVars, scanVars, validIndices, countVars,
                   isProcessingComplete, progress, queue, ready, workers, setVars,
                   uniqueErrorMessages, hist>>

\* isProcessingComplete.store(true) / isComplete.store(true)
SignalComplete ==
    /\ pc = "signal"
    /\ isProcessingComplete' = TRUE
    /\ pc' = "join"
    /\ UNCHANGED <<osVars, Mutex4Low, fsVars, callVars, pos, scanVars, validIndices, countVars, progress,
                   queue, ready, workers, setVars, uniqueErrorMessages, hist>>

\* progressThread.join()
JoinProgress ==
    /\ pc = "join"
    /\ progress = "exited"
    /\ progress' = "joined"
    /\ pc' = "returned"
    /\ UNCHANGED <<osVars, Mutex4Low, fsVars, callVars, pos, scanVars, validIndices, countVars,
                   isProcessingComplete, queue, ready, workers, setVars, uniqueErrorMessages,
                   hist>>

\* displayProgressBar (not in src/): the loop ends once the flag is seen set
ProgressExit ==
    /\ progress = "running"
    /\ isProcessingComplete
    /\ progress' = "exited"
    /\ UNCHANGED <<osVars, Mutex4Low, fsVars, callVars, pc, pos, scanVars, validIndices, countVars,
                   isProcessingComplete, queue, ready, workers, setVars, uniqueErrorMessages,
                   hist>>

\* select_and_mount_files_by_number after the call: with verbose set,
\* printMountedAndErrors shows and clears the four sets; free(input)
AfterCall ==
    /\ pc = "returned"
    /\ pc' = "prompt"
    /\ inputBuffer' = FreeBuffer(inputBuffer)
    /\ IF verbose
       THEN /\ mountedFiles' = {}
            /\ skippedMessages' = {}
            /\ mountedFails' = {}
            /\ uniqueErrorMessages' = {}
       ELSE UNCHANGED <<setVars, uniqueErrorMessages>>
    /\ UNCHANGED <<osVars, Mutex4Low, fsVars, callsLeft, input, entry, pos, scanVars, validIndices, countVars,
                   isProcessingComplete, progress, queue, ready, workers, hist>>

(***************************************************************************)
(* The worker pool (threadpool.h, not in src/) and the tasks               *)
(***************************************************************************)
PathOf(w) == isoFiles[workers[w].task]

At(w, step) == workers[w].task # 0 /\ workers[w].step = step

Goto(w, step) == workers' = [workers EXCEPT ![w].step = step]

\* mountIsoFile has built a message and comes to the block that inserts it
\* into a set under std::lock_guard lowLock(Mutex4Low); next is where the loop
\* body goes after the block
Pend(w, set, msg, next) ==
    workers' = [workers EXCEPT ![w].step = "lock",
                               ![w].put = [set |-> set, msg |-> msg, next |-> next]]

\* processTask: shouldProcess, from validIndices.insert(index).second
ShouldProcess(i) == i \notin validIndices

\* Mutant of StepAfterCheck: the directory is seen to before the privilege
StepAfterCheck_DirFirst(already) == IF already THEN "finish" ELSE "ensureDir"

\* mountIsoFile: where the loop body goes after the isAlreadyMounted test: the
\* skip ends it (continue)
StepAfterCheck(already) == IF already THEN "finish" ELSE "checkRoot"

\* Mutant of NotPrivileged: the privilege test never fires
NotPrivileged_Never == FALSE

\* mountIsoFile: geteuid() != 0
NotPrivileged == euid # 0

\* A worker thread of the pool takes the oldest task (the threads are alike:
\* the idle one of lowest number stands for whichever takes it). A task of
\* processAndMountIsoFiles begins with processTask's validIndices.insert; a
\* task of mountAllIsoFiles begins with mountIsoFile
WorkerTake(w) ==
    /\ w <= numThreads
    /\ workers[w].task = 0
    /\ \A v \in 1..(w - 1) : workers[v].task # 0
    /\ queue # <<>>
    /\ LET i == Head(queue)
           shouldProcess == entry = "all" \/ ShouldProcess(i)
       IN  /\ queue' = Tail(queue)
           /\ validIndices' = IF entry = "sel" THEN validIndices \cup {i} ELSE validIndices
           /\ workers' = [workers EXCEPT ![w] =
                            [task |-> i, fs |-> 0, put |-> NoPut,
                             step |-> IF shouldProcess THEN "checkMounted" ELSE "finish"]]
           /\ hist' = IF shouldProcess THEN [hist EXCEPT ![i].calls = @ + 1] ELSE hist
    /\ UNCHANGED <<osVars, Mutex4Low, fsVars, callVars, pc, pos, scanVars, countVars,
                   isProcessingComplete, progress, ready, setVars, uniqueErrorMessages>>

\* An exception leaves the task: the packaged task stores it in the future,
\* which becomes ready; nothing after the throw is executed
TaskThrows(w) ==
    /\ workers' = [workers EXCEPT ![w] = IdleWorker]
    /\ ready' = IF entry = "all" THEN ready \cup {workers[w].task} ELSE ready
    /\ hist' = [hist EXCEPT ![workers[w].task].threw = TRUE]

\* mountIsoFile: the mount point is derived and isAlreadyMounted consulted
EngineCheckMounted(w) ==
    /\ At(w, "checkMounted")
    /\ LET i == workers[w].task
           mp == MountPoint(PathOf(w))
       IN  IF isAlreadyMounted(mp)
           THEN /\ hist' = [hist EXCEPT ![i].wasMounted = mp \in mounted,
                                        ![i].mps = @ \cup {mp}]
                /\ Pend(w, "Skipped", SkippedMsg(PathOf(w), mp), StepAfterCheck(TRUE))
           ELSE /\ hist' = [hist EXCEPT ![i].wasMounted = mp \in mounted,
                                        ![i].mps = @ \cup {mp}]
                /\ Goto(w, StepAfterCheck(FALSE))
    /\ UNCHANGED <<osVars, Mutex4Low, fsVars, callVars, pc, pos, scanVars, validIndices,
                   countVars, isProcessingComplete, progress, queue, ready, setVars,
                   uniqueErrorMessages>>

\* mountIsoFile: if (geteuid() != 0)
EngineCheckRoot(w) ==
    /\ At(w, "checkRoot")
    /\ IF NotPrivileged
       THEN Pend(w, "Failed", RootMsg(PathOf(w)), "finish")
       ELSE Goto(w, "ensureDir")
    /\ UNCHANGED <<osVars, Mutex4Low, fsVars, callVars, pc, pos, scanVars, validIndices,
                   countVars, isProcessingComplete, progress, queue, ready, setVars,
                   uniqueErrorMessages, hist>>

\* Mutant of StepAfterCreate: a failed creation does not end the invocation
StepAfterCreate_GoesOn(created) == "tryFs"

\* mountIsoFile: where the loop body goes after the directory was seen to: the
\* catch block of a failed creation ends it (continue)
StepAfterCreate(created) == IF created THEN "tryFs" ELSE "finish"

\* mountIsoFile: if (!fs::exists(mountPoint)) fs::create_directory(mountPoint).
\* fs::exists may throw (a status error other than not-found), which nothing
\* in the task catches; a filesystem_error of create_directory is caught
EngineEnsureDir(w) ==
    /\ At(w, "ensureDir")
    /\ LET i == workers[w].task
           mp == MountPoint(PathOf(w))
       IN  \E outcome \in {"ok", "existsThrows", "createThrows"} :
            CASE outcome = "existsThrows" ->
                    /\ faultsLeft > 0
                    /\ faultsLeft' = faultsLeft - 1
                    /\ TaskThrows(w)
                    /\ dirs' = dirs
              [] outcome = "createThrows" ->
                    /\ mp \notin dirs
                    /\ faultsLeft > 0
                    /\ faultsLeft' = faultsLeft - 1
                    /\ hist' = [hist EXCEPT ![i].createFailed = TRUE]
                    /\ workers' = [workers EXCEPT
                            ![w].step = "lock",
                            ![w].fs = IF StepAfterCreate(FALSE) = "tryFs" THEN 1 ELSE @,
                            ![w].put = [set |-> "Failed", msg |-> CreateMsg(mp),
                                        next |-> StepAfterCreate(FALSE)]]
                    /\ UNCHANGED <<dirs, ready>>
              [] outcome = "ok" ->
                    /\ dirs' = dirs \cup {mp}
                    /\ hist' = IF mp \in dirs THEN hist ELSE [hist EXCEPT ![i].creates = @ + 1]
                    /\ workers' = [workers EXCEPT ![w].step = StepAfterCreate(TRUE), ![w].fs = 1]
                    /\ UNCHANGED <<ready, faultsLeft>>
    /\ UNCHANGED <<osVars, Mutex4Low, mounted, callVars, pc, pos, scanVars, validIndices,
                   countVars, isProcessingComplete, progress, queue, setVars,
                   uniqueErrorMessages>>

\* Mutant of StepAfterLoop: the mount point is removed after a success too
StepAfterLoop_AlwaysRemoves(mountSuccess) == "exhausted"

\* mountIsoFile: where the loop body goes after the filesystem-type loop:
\* if (!mountSuccess) the mount point is removed and the image put into Failed
StepAfterLoop(mountSuccess) == IF mountSuccess THEN "finish" ELSE "exhausted"

\* Mutant of StepAfterLoad: a failed module load ends the loop
StepAfterLoad_FailStops(loadOk) == IF loadOk THEN "context" ELSE "exhausted"

\* mountIsoFile: where the loop body goes after loadKernelModule: a failed
\* load writes a warning and the body goes on to the context all the same
StepAfterLoad(loadOk) == "context"

\* mountIsoFile: one iteration of for (const auto& fsType : fsTypes): the
\* module of the type is loaded when it has one (modprobe may fail), a context
\* is created (a null context adds an entry to mountedFails and ends the
\* loop), and the image is mounted read-only on the mount point; success adds
\* the entry to mountedFiles and ends the loop
EngineTryFsType(w) ==
    /\ At(w, "tryFs")
    /\ LET i == workers[w].task
           k == workers[w].fs
           mp == MountPoint(PathOf(w))
           hasModule == fsTypes[k] \in fsTypeToModule
           loaded == IF hasModule THEN 1 ELSE 0
           ret0 == goodFs[i] = k /\ mp \in dirs
       IN  \E loadOk, cxt \in BOOLEAN :
            LET failed == IF loadOk THEN {} ELSE {fsTypes[k]}
            IN  /\ ~loadOk => hasModule /\ modFaultsLeft > 0
                /\ modFaultsLeft' = IF loadOk THEN modFaultsLeft ELSE modFaultsLeft - 1
                /\ ~cxt => faultsLeft > 0
                /\ faultsLeft' = IF cxt THEN faultsLeft ELSE faultsLeft - 1
                /\ IF StepAfterLoad(loadOk) # "context"
                   THEN /\ hist' = [hist EXCEPT ![i].loads = @ + loaded,
                                                ![i].loadFailed = @ \cup failed]
                        /\ cxt
                        /\ Goto(w, StepAfterLoad(loadOk))
                        /\ mounted' = mounted
                   ELSE IF ~cxt
                   THEN /\ hist' = [hist EXCEPT ![i].loads = @ + loaded,
                                                ![i].loadFailed = @ \cup failed,
                                                ![i].nullCtx = TRUE]
                        /\ Pend(w, "Failed", ContextMsg(PathOf(w)), StepAfterLoop(FALSE))
                        /\ mounted' = mounted
                   ELSE /\ hist' = [hist EXCEPT ![i].loads = @ + loaded,
                                                ![i].loadFailed = @ \cup failed,
                                                ![i].mounts = @ + 1,
                                                ![i].tried = Append(@, fsTypes[k])]
                        /\ mounted' = IF ret0 THEN mounted \cup {mp} ELSE mounted
                        /\ IF ret0
                           THEN Pend(w, "Mounted", MountedMsg(PathOf(w), mp, fsTypes[k]),
                                     StepAfterLoop(TRUE))
                           ELSE IF k = Len(fsTypes)
                           THEN Goto(w, StepAfterLoop(FALSE))
                           ELSE workers' = [workers EXCEPT ![w].fs = k + 1]
    /\ UNCHANGED <<envVars, Mutex4Low, dirs, callVars, pc, pos, scanVars, validIndices,
                   countVars, isProcessingComplete, progress, queue, ready, setVars,
                   uniqueErrorMessages>>

\* mountIsoFile, if (!mountSuccess): fs::remove(mountPoint). It throws on a
\* directory that is busy (something is mounted on it), which nothing in the
\* task catches; a missing directory is no error
EngineRemoveDir(w) ==
    /\ At(w, "exhausted")
    /\ LET mp == MountPoint(PathOf(w))
       IN  IF mp \in mounted
           THEN /\ TaskThrows(w)
                /\ dirs' = dirs
           ELSE /\ dirs' = dirs \ {mp}
                /\ Goto(w, "insertFailed")
                /\ UNCHANGED <<ready, hist>>
    /\ UNCHANGED <<osVars, Mutex4Low, mounted, faultsLeft, callVars, pc, pos, scanVars,
                   validIndices, countVars, isProcessingComplete, progress, queue, setVars,
                   uniqueErrorMessages>>

\* Mutant of LockFree: the lock excludes nobody
LockFree_Always == TRUE

\* Mutex4Low is not held
LockFree == Mutex4Low = 0

\* mountIsoFile, if (!mountSuccess): the block that inserts the badFS message
\* is entered: std::lock_guard lowLock(Mutex4Low) blocks until the lock is
\* free and takes it
EngineInsertFailed(w) ==
    /\ At(w, "insertFailed")
    /\ LockFree
    /\ Mutex4Low' = w
    /\ workers' = [workers EXCEPT
                    ![w].step = "insert",
                    ![w].put = [set |-> "Failed", msg |-> BadFsMsg(PathOf(w)),
                                next |-> "finish"]]
    /\ UNCHANGED <<osVars, fsVars, callVars, pc, pos, scanVars, validIndices, countVars,
                   isProcessingComplete, progress, queue, ready, setVars,
                   uniqueErrorMessages, hist>>

\* mountIsoFile: one of the other blocks that insert a message is entered:
\* std::lock_guard lowLock(Mutex4Low) blocks until the lock is free and takes
\* it
EngineLock(w) ==
    /\ At(w, "lock")
    /\ LockFree
    /\ Mutex4Low' = w
    /\ Goto(w, "insert")
    /\ UNCHANGED <<osVars, fsVars, callVars, pc, pos, scanVars, validIndices, countVars,
                   isProcessingComplete, progress, queue, ready, setVars,
                   uniqueErrorMessages, hist>>

\* mountIsoFile: the insert of a block and the block's end, where the
\* lock_guard releases the lock
EngineInsert(w) ==
    /\ At(w, "insert")
    /\ LET i == workers[w].task
           p == workers[w].put
       IN  /\ mountedFiles' = IF p.set = "Mounted" THEN mountedFiles \cup {p.msg}
                              ELSE mountedFiles
           /\ skippedMessages' = IF p.set = "Skipped" THEN skippedMessages \cup {p.msg}
                                 ELSE skippedMessages
           /\ mountedFails' = IF p.set = "Failed" THEN mountedFails \cup {p.msg}
                              ELSE mountedFails
           /\ hist' = [hist EXCEPT ![i].sets = @ \cup {p.set}, ![i].ins = @ + 1]
           /\ workers' = [workers EXCEPT ![w].step = p.next, ![w].put = NoPut]
    /\ Mutex4Low' = 0
    /\ UNCHANGED <<osVars, fsVars, callVars, pc, pos, scanVars, validIndices, countVars,
                   isProcessingComplete, progress, queue, ready, uniqueErrorMessages>>

\* The end of a task. processTask: completedTasks is raised, activeTaskCount
\* lowered, and the task that lowers it to zero calls notify_all, which wakes
\* the main thread only if it is blocked in the wait. mountAllIsoFiles:
\* ++completedIsos, and the future becomes ready
TaskFinish(w) ==
    /\ At(w, "finish")
    /\ workers' = [workers EXCEPT ![w] = IdleWorker]
    /\ completedTasks' = completedTasks + 1
    /\ IF entry = "sel"
       THEN /\ activeTaskCount' = activeTaskCount - 1
            /\ pc' = IF activeTaskCount = 1 /\ pc = "blocked" THEN "waitCheck" ELSE pc
            /\ ready' = ready
       ELSE /\ ready' = ready \cup {workers[w].task}
            /\ UNCHANGED <<activeTaskCount, pc>>
    /\ UNCHANGED <<osVars, Mutex4Low, fsVars, callVars, pos, scanVars, validIndices, totalTasks,
                   isProcessingComplete, progress, queue, setVars, uniqueErrorMessages, hist>>

WorkerStep(w) ==
    \/ WorkerTake(w)
    \/ EngineCheckMounted(w)
    \/ EngineCheckRoot(w)
    \/ EngineEnsureDir(w)
    \/ EngineTryFsType(w)
    \/ EngineRemoveDir(w)
    \/ EngineInsertFailed(w)
    \/ EngineLock(w)
    \/ EngineInsert(w)
    \/ TaskFinish(w)

MainStep ==
    \/ PreScanStep
    \/ ScanStep
    \/ MergeErrors
    \/ WaitCheck
    \/ WaitBlock
    \/ MountAllStart
    \/ MountAllWait
    \/ SignalComplete
    \/ JoinProgress
    \/ AfterCall

Next ==
    \/ Prompt(EngineLines)
    \/ MainStep
    \/ ProgressExit
    \/ \E w \in 1..maxThreads : WorkerStep(w)

Spec == Init /\ [][Next]_vars

\* The selection-centred specification: every line of SelLines over a fixed
\* candidate list whose first image no filesystem type mounts
InitSel ==
    /\ isoFiles = SubSeq(PathPool, 1, NumIso)
    /\ hasher = HashDistinct
    /\ goodFs = [i \in 1..N |-> IF i = 1 THEN 0 ELSE 2]
    /\ euid = 0
    /\ parentNodev = TRUE
    /\ verbose = TRUE
    /\ mounted = {}
    /\ dirs = {}
    /\ faultsLeft = 0
    /\ modFaultsLeft = 0
    /\ callsLeft = 1
    /\ InitCaller

NextSel ==
    \/ Prompt(SelLines)
    \/ MainStep
    \/ ProgressExit
    \/ \E w \in 1..maxThreads : WorkerStep(w)

SpecSel == InitSel /\ [][NextSel]_vars

\* The lines typed at the prompt in the specification of sequential calls
TwoLines == {<<Tok1>>, <<TokRange21>>, <<TokAll>>, <<TokA>>}

\* The specification of sequential calls: the caller's loop makes up to
\* MaxCalls calls over one candidate list, as root, with either setting of
\* verbose and no fault of the environment
InitTwo ==
    /\ isoFiles = SubSeq(PathPool, 1, NumIso)
    /\ hasher \in HasherChoices
    /\ goodFs \in [1..N -> FsOutcomes]
    /\ euid = 0
    /\ parentNodev \in BOOLEAN
    /\ verbose \in BOOLEAN
    /\ mounted = {}
    /\ dirs = {}
    /\ faultsLeft = 0
    /\ modFaultsLeft = 0
    /\ callsLeft = MaxCalls
    /\ InitCaller

NextTwo ==
    \/ Prompt(TwoLines)
    \/ MainStep
    \/ ProgressExit
    \/ \E w \in 1..maxThreads : WorkerStep(w)

SpecTwo == InitTwo /\ [][NextTwo]_vars

\* The specification of environments: one call over a fixed candidate list
\* whose first image no filesystem type mounts, with or without privilege,
\* with either hash, with the first mount point mounted or not, and with the
\* faults of the environment
InitEnv ==
    /\ isoFiles = SubSeq(PathPool, 1, NumIso)
    /\ hasher \in HasherChoices
    /\ goodFs = [i \in 1..N |-> IF i = 1 THEN 0 ELSE 2]
    /\ euid \in {0, 1000}
    /\ parentNodev \in BOOLEAN
    /\ verbose = TRUE
    /\ mounted \in {{}, {MountPoint(isoFiles[1])}}
    /\ dirs = mounted
    /\ faultsLeft = MaxFaults
    /\ modFaultsLeft = 0
    /\ callsLeft = 1
    /\ InitCaller

SpecEnv == InitEnv /\ [][Next]_vars

\* The specification of ranges: the selection-centred one with no line but
\* the ranges with both ends in 1..NumIso and "00"
NextRange ==
    \/ Prompt(RangeLines \cup {<<TokAll>>})
    \/ MainStep
    \/ ProgressExit
    \/ \E w \in 1..maxThreads : WorkerStep(w)

SpecRange == InitSel /\ [][NextRange]_vars

\* The specification of one call: the fixed list and environment of the
\* selection-centred one, one call, with the lines of the sequential calls (an
\* index, a range, "00", and a line that selects nothing)
SpecOne == InitSel /\ [][NextTwo]_vars

\* The lines typed at the prompt in the specification of the caller's buffer
BufLines == {<<Tok1>>, <<TokRange21>>, <<TokAll>>}

\* The specification of the caller's buffer: the fixed list and environment
\* of the selection-centred one, where the line typed may also be empty (the
\* function returns) or a lone "/" (the filter mode is entered, and left on an
\* empty search query)
NextBuf ==
    \/ Prompt(BufLines)
    \/ PromptReturn
    \/ PromptFilter
    \/ FilterLeave
    \/ MainStep
    \/ ProgressExit
    \/ \E w \in 1..maxThreads : WorkerStep(w)

SpecBuf == InitSel /\ [][NextBuf]_vars

\* The specification of failing module loads: one call as root over a fixed
\* candidate list whose first image no filesystem type mounts, none of them
\* mounted, where modprobe may fail up to MaxFaults times besides the other
\* faults of the environment
InitMod ==
    /\ isoFiles = SubSeq(PathPool, 1, NumIso)
    /\ hasher = HashDistinct
    /\ goodFs = [i \in 1..N |-> IF i = 1 THEN 0 ELSE 2]
    /\ euid = 0
    /\ parentNodev = TRUE
    /\ verbose = TRUE
    /\ mounted = {}
    /\ dirs = {}
    /\ faultsLeft = MaxFaults
    /\ modFaultsLeft = MaxFaults
    /\ callsLeft = 1
    /\ InitCaller

SpecMod == InitMod /\ [][Next]_vars


(***************************************************************************)
(* Properties                                                              *)
(***************************************************************************)
\* Some worker is executing the task of index i
Busy(i) == \E w \in 1..maxThreads : workers[w].task = i

\* The engine was invoked for i and the invocation is over
EngineLeft(i) == hist[i].calls >= 1 /\ ~Busy(i)

\* The engine was invoked for i and has returned without an exception
EngineReturned(i) == EngineLeft(i) /\ ~hist[i].threw

RECURSIVE Resolved(_, _, _)
\* The indices the tokens of a line denote for the main pass, from token k up
\* to the lone "/" that ends the scan
Resolved(line, k, n) ==
    IF k > Len(line) THEN {}
    ELSE LET eff == TokenEffect(line[k], n)
         IN  IF eff.kind \in {"stop", "throw"} THEN {}
             ELSE SeqToSet(eff.idx) \cup Resolved(line, k + 1, n)

\* The call of processAndMountIsoFiles can go no further: it has returned, an
\* exception has left it, or its main thread is blocked in the wait while the
\* pool has no thread to run a task
CallAtRest ==
    \/ pc \in {"returned", "crashed"}
    \/ pc = "blocked" /\ numThreads = 0

\* C1: in one call of processAndMountIsoFiles the engine is never invoked
\* twice for an index, and once the call can go no further it has been
\* invoked exactly once for every index the line's tokens resolve to and for
\* no other
C1_OncePerResolvedIndex ==
    entry = "sel" =>
        \A i \in 1..N :
            /\ hist[i].calls <= 1
            /\ CallAtRest => (hist[i].calls = 1 <=> i \in Resolved(input, 1, N))

\* C2: whenever processAndMountIsoFiles has submitted a task, the pool built
\* from the pre-scan's token count has at least one worker to run it
C2_PoolHasWorker == (entry = "sel" /\ totalTasks > 0) => numThreads >= 1

\* C3: when an orchestration call that submitted a task returns, completedTasks
\* equals the number of tasks submitted, activeTaskCount is zero and the
\* progress thread has been joined
C3_CountersAtReturn ==
    (pc = "returned" /\ totalTasks > 0) =>
        /\ completedTasks = totalTasks
        /\ activeTaskCount = 0
        /\ progress = "joined"

\* C4: no exception escapes the pre-scan or the main pass, whatever the
\* tokens of the line
C4_NoEscapingException == pc # "crashed"

\* C5: the engine puts an image into at most one of the sets Mounted, Skipped
\* and Failed and never into InputError, and once its invocation for the image
\* is over the image is in exactly one of the three; the kinds of entry of the
\* four sets are disjoint
C5_OneClassification ==
    /\ \A i \in 1..N :
        /\ Cardinality(hist[i].sets) <= 1
        /\ EngineLeft(i) => Cardinality(hist[i].sets) = 1
    /\ \A m \in mountedFiles : m.kind = "mounted"
    /\ \A m \in skippedMessages : m.kind = "alreadyMounted"
    /\ \A m \in mountedFails :
        m.kind \in {"rootRequired", "createMountPoint", "mountContext", "badFS"}
    /\ \A m \in uniqueErrorMessages : m.kind \in {"InvalidIndex", "InvalidInput", "InvalidRange"}

\* C6: when mountAllIsoFiles returns for candidates with pairwise distinct
\* mount points, none found mounted, and no fault of the environment, the
\* sets hold one Mounted entry per mountable image, one Failed entry per
\* unmountable image and no Skipped entry
C6_AllCounts ==
    ( /\ entry = "all"
      /\ pc = "returned"
      /\ euid = 0
      /\ faultsLeft = MaxFaults
      /\ \A i, j \in 1..N : i # j => MountPoint(isoFiles[i]) # MountPoint(isoFiles[j])
      /\ \A i \in 1..N : ~hist[i].wasMounted /\ "Skipped" \notin hist[i].sets )
    => /\ Cardinality(mountedFiles) = Cardinality({i \in 1..N : goodFs[i] # 0})
       /\ Cardinality(mountedFails) = Cardinality({i \in 1..N : goodFs[i] = 0})
       /\ skippedMessages = {}

C8_AllFailedWithoutRoot ==
    (euid # 0 /\ pc = "returned") =>
        \A i \in 1..N :
            hist[i].calls = 1 =>
                hist[i].sets = {"Failed"} /\ RootMsg(isoFiles[i]) \in mountedFails

\* C8, amended: without privilege no mount call, module load or directory
\* creation occurs, and every candidate the engine was invoked on is in Failed
\* with the root-privileges message, unless its mount point appears mounted:
\* that candidate is in Skipped (the entries stand until the caller has shown
\* and cleared the sets)
C8_WithoutRoot ==
    euid # 0 =>
        /\ mountedFiles = {}
        /\ \A i \in 1..N :
            /\ hist[i].mounts = 0 /\ hist[i].loads = 0 /\ hist[i].creates = 0
            /\ (EngineLeft(i) /\ pc # "prompt") =>
                IF isAlreadyMounted(MountPoint(isoFiles[i]))
                THEN hist[i].sets = {"Skipped"}
                ELSE hist[i].sets = {"Failed"} /\ RootMsg(isoFiles[i]) \in mountedFails

\* C8 witness: an unprivileged call has returned with one candidate in Failed
\* and another, found mounted, in Skipped
C8_Witness ==
    /\ euid # 0
    /\ pc = "returned"
    /\ \E i, j \in 1..N : hist[i].sets = {"Failed"} /\ hist[j].sets = {"Skipped"}

\* C9: once the engine has tried every filesystem type for an image without
\* success and classified it Failed, the image's mount-point directory does
\* not exist
C9_DirGoneAfterExhaustion ==
    \A i \in 1..N :
        (Len(hist[i].tried) = Len(fsTypes) /\ "Failed" \in hist[i].sets)
            => MountPoint(isoFiles[i]) \notin dirs

\* C10: two distinct candidates for which the engine has derived a mount
\* point never have the same mount point
C10_MountPointInjective ==
    \A i, j \in 1..N :
        (i # j /\ hist[i].calls >= 1 /\ hist[j].calls >= 1)
            => MountPoint(isoFiles[i]) # MountPoint(isoFiles[j])


C12_MountedThenSkipped ==
    \A i \in 1..N :
        (euid = 0 /\ hist[i].prev = {"Mounted"} /\ EngineLeft(i))
            => hist[i].sets = {"Skipped"} /\ hist[i].mounts = 0

\* C12 witness: a second call has returned in which the engine was invoked
\* for a candidate the first call had classified Mounted
C12_Witness ==
    /\ pc = "returned"
    /\ \E i \in 1..N : hist[i].prev = {"Mounted"} /\ EngineReturned(i)

\* The token has a character that is neither a digit nor a hyphen
HasOtherChar(token) == \E k \in 1..Len(token) : token[k] \notin DigitChars \cup {"-"}

\* The token is one or more digits, one hyphen, one or more digits
StrictRange(token) ==
    \E d \in 2..(Len(token) - 1) :
        /\ token[d] = "-"
        /\ AllDigits(SubSeq(token, 1, d - 1))
        /\ AllDigits(SubSeq(token, d + 1, Len(token)))

\* The main pass takes its step on the token at pos
ScansToken == pc = "scan" /\ pos' = pos + 1

\* C13: the main pass expands a token with a hyphen as a range (records its
\* pair, submits its indices) only if the token is digits, one hyphen, digits;
\* and for a token with any other character, the lone "/" apart, it submits
\* no task and adds one error
C13_RangeShape ==
    [][ScansToken =>
        LET token == input[pos]
        IN  /\ (CountChar(token, "-") > 0
                    /\ (queue' # queue \/ processedRanges' # processedRanges))
                => StrictRange(token)
            /\ (HasOtherChar(token) /\ token # TokSlash)
                => (queue' = queue /\ Len(errorQueue') = Len(errorQueue) + 1)]_vars

RECURSIVE StripZeros(_)
\* The digits without their leading zeros
StripZeros(digits) ==
    IF digits # <<>> /\ Head(digits) = "0" THEN StripZeros(Tail(digits)) ELSE digits

\* The digits denote a number of 1..n
DenotesIndex(digits, n) == \E v \in 1..n : StripZeros(digits) = to_string(v)

\* The token is a range, digits-digits, with an endpoint outside 1..n
RangeOutside(token, n) ==
    /\ StrictRange(token)
    /\ LET d == FindFirstOf(token, {"-"}, 1)
       IN  \/ ~DenotesIndex(SubSeq(token, 1, d - 1), n)
           \/ ~DenotesIndex(SubSeq(token, d + 1, Len(token)), n)

\* Token k of the line is one the main pass scans: no lone "/" precedes it
BeforeSlash(line, k) == \A j \in 1..(k - 1) : line[j] # TokSlash

\* C14: every index submitted lies in 1..N; the main pass, on a range token
\* with an endpoint outside 1..N, submits nothing and adds an Invalid range
\* error; and once the call can go no further, InputError holds an Invalid
\* range message if the line has such a token before any lone "/"
C14_IndicesInRange ==
    /\ [](entry = "sel" =>
            /\ processedIndices \subseteq 1..N
            /\ SeqToSet(queue) \subseteq 1..N
            /\ (CallAtRest /\ \E k \in 1..Len(input) :
                                RangeOutside(input[k], N) /\ BeforeSlash(input, k))
                => \E m \in uniqueErrorMessages : m.kind = "InvalidRange")
    /\ [][(ScansToken /\ RangeOutside(input[pos], N))
            => /\ queue' = queue
               /\ Len(errorQueue') = Len(errorQueue) + 1
               /\ errorQueue'[Len(errorQueue')].kind = "InvalidRange"]_vars

\* The token is a single index, all digits, that is zero or greater than n
BadIndex(token, n) == token # <<>> /\ AllDigits(token) /\ ~DenotesIndex(token, n)

\* The InputError a single index that is zero or too great calls for
BadIndexMsg(token) ==
    InvalidIndexMsg(IF StripZeros(token) = <<>> THEN <<"0">> ELSE StripZeros(token))

\* C15: the main pass, on a single index that is all zeros or greater than N,
\* submits nothing and adds the Invalid index error naming it; and once the call
\* on a line of such tokens only can go no further, InputError holds the error
\* of every token, no task was submitted and Mounted, Skipped and Failed are
\* as they were
C15_BadIndexRejected ==
    /\ [][(ScansToken /\ BadIndex(input[pos], N))
            => /\ queue' = queue
               /\ errorQueue' = Append(errorQueue, BadIndexMsg(input[pos]))]_vars
    /\ []((entry = "sel" /\ CallAtRest /\ \A k \in 1..Len(input) : BadIndex(input[k], N))
            => /\ \A k \in 1..Len(input) : BadIndexMsg(input[k]) \in uniqueErrorMessages
               /\ totalTasks = 0
               /\ mountedFiles = {} /\ skippedMessages = {} /\ mountedFails = {})

\* The number of 1..n the digits denote
IndexOf(digits, n) == CHOOSE v \in 1..n : StripZeros(digits) = to_string(v)

\* The indices a well-formed token selects: a single index of 1..n, or every
\* index between the ends of a range digits-digits with both ends in 1..n;
\* none for any other token
TokenIndices(token, n) ==
    IF BadIndex(token, n) \/ HasOtherChar(token) \/ token = <<>> THEN {}
    ELSE IF AllDigits(token) THEN {IndexOf(token, n)}
    ELSE IF StrictRange(token) /\ ~RangeOutside(token, n)
    THEN LET d == FindFirstOf(token, {"-"}, 1)
             a == IndexOf(SubSeq(token, 1, d - 1), n)
             b == IndexOf(SubSeq(token, d + 1, Len(token)), n)
         IN  Min(a, b)..(IF a <= b THEN b ELSE a)
    ELSE {}

\* The indices the well-formed tokens of a line select, up to a lone "/"
SelectedBy(line, n) ==
    UNION {TokenIndices(line[k], n) : k \in {j \in 1..Len(line) : BeforeSlash(line, j + 1)}}

InputErrorKinds == {"InvalidIndex", "InvalidInput", "InvalidRange"}

\* C16: while a call runs, a step that adds to Failed leaves the error queue
\* and InputError alone, and a step that adds an input error leaves Mounted,
\* Skipped and Failed alone; Failed never holds an input error nor InputError
\* a mount failure; and once the call can go no further the engine has been
\* invoked exactly for the indices the line's well-formed tokens select, as if
\* the other tokens were absent
C16_ErrorsIndependent ==
    /\ [][pc # "returned" =>
            /\ mountedFails' # mountedFails
                => (errorQueue' = errorQueue /\ uniqueErrorMessages' = uniqueErrorMessages)
            /\ (Len(errorQueue') > Len(errorQueue) \/ uniqueErrorMessages' # uniqueErrorMessages)
                => UNCHANGED <<mountedFiles, skippedMessages, mountedFails>>]_vars
    /\ [](/\ \A m \in mountedFails : m.kind \notin InputErrorKinds
          /\ \A m \in uniqueErrorMessages : m.kind \in InputErrorKinds
          /\ (entry = "sel" /\ CallAtRest)
                => {i \in 1..N : hist[i].calls = 1} = SelectedBy(input, N))

\* The pair (start, end) of a range digits-digits with both ends in 1..n
RangePair(token, n) ==
    LET d == FindFirstOf(token, {"-"}, 1)
    IN  <<IndexOf(SubSeq(token, 1, d - 1), n), IndexOf(SubSeq(token, d + 1, Len(token)), n)>>

\* The token is a range digits-digits with both ends in 1..n
GoodRange(token, n) == StrictRange(token) /\ ~RangeOutside(token, n)

\* Token k of the line repeats the range of an earlier token
RepeatsRange(line, k, n) ==
    /\ BeforeSlash(line, k)
    /\ GoodRange(line[k], n)
    /\ \E j \in 1..(k - 1) :
        GoodRange(line[j], n) /\ RangePair(line[j], n) = RangePair(line[k], n)

\* C17: the main pass adds an error for a range token that repeats a range
\* given earlier in the line, and the call on such a line returns with an
\* input error in InputError
C17_DuplicateRangeReported ==
    /\ [][(ScansToken /\ RepeatsRange(input, pos, N))
            => Len(errorQueue') = Len(errorQueue) + 1]_vars
    /\ []((entry = "sel" /\ CallAtRest /\ \E k \in 1..Len(input) : RepeatsRange(input, k, N))
            => /\ pc = "returned"
               /\ \E m \in uniqueErrorMessages : m.kind \in InputErrorKinds)

\* The pool of the call has been constructed
PoolBuilt ==
    \/ entry = "sel" /\ pc \in {"scan", "errors", "waitCheck", "toBlock", "blocked",
                                "signal", "join", "returned"}
    \/ entry = "all" /\ pc \in {"allWait", "signal", "join", "returned"}

\* C18: the pool of processAndMountIsoFiles has min(number of distinct indices
\* the line selects, maxThreads) workers, that of mountAllIsoFiles
\* min(number of candidates, maxThreads)
C18_PoolSize ==
    PoolBuilt =>
        numThreads = IF entry = "sel"
                     THEN Min(Cardinality(SelectedBy(input, N)), maxThreads)
                     ELSE Min(N, maxThreads)

\* C19: the main pass, on a lone "/", submits nothing, adds no error and ends
\* its scan, so that no token after it is scanned; and once the call on a line
\* with a lone "/" can go no further, the engine has been invoked exactly for
\* the indices the tokens before the "/" select
C19_SlashEndsScan ==
    /\ [][(ScansToken /\ input[pos] = TokSlash)
            => (pc' = "errors" /\ queue' = queue /\ errorQueue' = errorQueue)]_vars
    /\ [](entry = "sel" =>
            /\ pc = "scan" => BeforeSlash(input, pos)
            /\ (CallAtRest /\ \E k \in 1..Len(input) : input[k] = TokSlash)
                => {i \in 1..N : hist[i].calls = 1} = SelectedBy(input, N))

\* C20: for a and b in 1..N the main pass expands "a-b", like "b-a", to the
\* indices from min(a,b) to max(a,b); the engine is never invoked twice for
\* one of them, and the call on "a-b" ends by returning, the engine invoked
\* once for each of these indices and for no other
C20_RangeEitherDirection ==
    \A a, b \in 1..N :
        LET between == Min(a, b)..(IF a <= b THEN b ELSE a)
        IN  /\ TokenEffect(RangeToken(a, b), N).kind = "range"
            /\ SeqToSet(TokenEffect(RangeToken(a, b), N).idx) = between
            /\ SeqToSet(TokenEffect(RangeToken(b, a), N).idx) = between
            /\ (entry = "sel" /\ input = <<RangeToken(a, b)>>)
                => /\ \A i \in 1..N : hist[i].calls <= 1
                   /\ CallAtRest
                        => /\ pc = "returned"
                           /\ \A i \in 1..N : hist[i].calls = 1 <=> i \in between

\* C20 witness: the call on "2-1" has returned with the engine invoked once
\* for each of 1 and 2
C20_Witness ==
    /\ pc = "returned"
    /\ input = <<RangeToken(2, 1)>>
    /\ \A i \in 1..2 : hist[i].calls = 1 /\ EngineReturned(i)

\* The caller has entered an orchestration call, which has not yet acted
CallStarts == pc \in {"prescan", "allStart"}

\* C21: every orchestration call the caller makes starts with mountedFiles,
\* skippedMessages, mountedFails and uniqueErrorMessages all empty, whatever
\* the verbose setting
C21_SetsEmptyAtCallStart ==
    CallStarts =>
        /\ mountedFiles = {}
        /\ skippedMessages = {}
        /\ mountedFails = {}
        /\ uniqueErrorMessages = {}

\* The main thread is inside mountAllIsoFiles
InMountAll == entry = "all" /\ pc \in {"allStart", "allWait", "signal", "join"}

\* C22: mountAllIsoFiles never invokes the engine twice for an element of the
\* candidate list, has invoked it exactly once for every element when it
\* returns, and no step taken while the main thread is inside it changes
\* uniqueErrorMessages
C22_AllOnceEach ==
    /\ [](entry = "all" =>
            \A i \in 1..N :
                /\ hist[i].calls <= 1
                /\ pc = "returned" => hist[i].calls = 1)
    /\ [][InMountAll => uniqueErrorMessages' = uniqueErrorMessages]_vars

\* C22 witness: mountAllIsoFiles, entered with an entry of an earlier call
\* in uniqueErrorMessages, has returned with the engine invoked once for each
\* candidate
C22_Witness ==
    /\ entry = "all"
    /\ pc = "returned"
    /\ N >= 2
    /\ uniqueErrorMessages # {}
    /\ \A i \in 1..N : hist[i].calls = 1

\* C23: the wake-up of the main thread's wait is never lost: the main thread
\* of processAndMountIsoFiles is never blocked in taskCompletionCV.wait with
\* activeTaskCount at zero, where no task is left to notify it and the wait
\* cannot end
C23_NoLostWakeup == ~(entry = "sel" /\ pc = "blocked" /\ activeTaskCount = 0)

\* C24: an invocation of the engine that has returned has made exactly one
\* insertion into mountedFiles, skippedMessages and mountedFails
C24_OneInsertion == \A i \in 1..N : EngineReturned(i) => hist[i].ins = 1

\* The order of the filesystem types, as the specification states it
StatedOrder == <<"iso9660", "udf", "hfsplus", "rockridge", "joliet", "isofs", "auto">>

\* The type of the last mount call made for candidate i in this call
LastTried(i) == hist[i].tried[Len(hist[i].tried)]

\* C25: the mount calls made for an image take the types in the stated order
\* from its start, one call per type; an image put into Mounted has had its
\* last mount call succeed at the first type that mounts it, the entry in
\* mountedFiles records that type, and no mount call is made for the image
\* afterwards
C25_FixedOrderFirstSuccess ==
    /\ [](\A i \in 1..N :
            /\ hist[i].tried = SubSeq(StatedOrder, 1, Len(hist[i].tried))
            /\ hist[i].mounts = Len(hist[i].tried)
            /\ ("Mounted" \in hist[i].sets /\ pc # "prompt") =>
                    /\ Len(hist[i].tried) = goodFs[i]
                    /\ MountedMsg(isoFiles[i], MountPoint(isoFiles[i]), LastTried(i))
                            \in mountedFiles)
    /\ [][\A i \in 1..N :
            ("Mounted" \in hist[i].sets /\ pc # "prompt") => hist'[i].tried = hist[i].tried]_vars

\* C25 witness: the engine has returned for an image that "iso9660" did not
\* mount and "udf" did
C25_Witness ==
    \E i \in 1..N :
        /\ EngineReturned(i)
        /\ hist[i].sets = {"Mounted"}
        /\ hist[i].tried = <<"iso9660", "udf">>

\* The type whose context could not be created, when there is one
NullCtxType(i) == IF hist[i].nullCtx THEN {fsTypes[Len(hist[i].tried) + 1]} ELSE {}

\* C26: a type whose module load failed has had its mount call made all the
\* same, unless the context for it could not be created; and an image with a
\* failed module load, and every context created, is classified by its mount
\* calls alone: once the engine has returned it is in Mounted only, its last
\* mount call made with the first type that mounts it, or in Failed only by
\* the one entry made after all seven types were tried
C26_LoadFailureIgnored ==
    \A i \in 1..N :
        hist[i].loadFailed # {} =>
            /\ hist[i].loadFailed \subseteq SeqToSet(hist[i].tried) \cup NullCtxType(i)
            /\ (EngineReturned(i) /\ ~hist[i].nullCtx) =>
                    /\ hist[i].ins = 1
                    /\ \/ hist[i].sets = {"Mounted"} /\ Len(hist[i].tried) = goodFs[i]
                       \/ hist[i].sets = {"Failed"} /\ hist[i].tried = fsTypes

\* C26 witness: the engine has returned for an image mounted with a type
\* whose module load had failed
C26_Witness ==
    \E i \in 1..N :
        /\ EngineReturned(i)
        /\ hist[i].sets = {"Mounted"}
        /\ LastTried(i) \in hist[i].loadFailed

\* The engine has put candidate i into Failed for lack of privilege
FailedForPrivilege(i) ==
    /\ NotPrivileged
    /\ "Failed" \in hist[i].sets
    /\ RootMsg(isoFiles[i]) \in mountedFails

\* C27: for an image put into Failed for lack of privilege the engine has
\* created no directory, requested no module load and made no mount call;
\* and no step taken without privilege, so none of such an invocation,
\* changes the set of mount-point directories
C27_PrivilegeFailureTouchesNothing ==
    /\ [](\A i \in 1..N :
            FailedForPrivilege(i) =>
                /\ hist[i].sets = {"Failed"}
                /\ hist[i].creates = 0
                /\ hist[i].loads = 0
                /\ hist[i].mounts = 0)
    /\ [][NotPrivileged => dirs' = dirs]_vars

\* C27 witness: the engine has returned for an image it put into Failed for
\* lack of privilege, with a mount-point directory in existence
C27_Witness ==
    \E i \in 1..N :
        /\ EngineReturned(i)
        /\ FailedForPrivilege(i)
        /\ dirs # {}

\* The candidates the call in progress is to invoke the engine for
Selected == IF entry = "all" THEN 1..N ELSE Resolved(input, 1, N)

\* C28: an image whose mount-point directory could not be created is put into
\* no set but Failed and, once its invocation is over, is there by the one
\* entry with the create-mount-point message, and no module load or mount
\* call is made for it; and when the call returns the
\* engine has been invoked, and has ended, for every other selected image
C28_CreateFailureStopsImageOnly ==
    \A i \in 1..N :
        hist[i].createFailed =>
            /\ hist[i].sets \subseteq {"Failed"}
            /\ EngineLeft(i) =>
                    /\ hist[i].sets = {"Failed"}
                    /\ hist[i].ins = 1
                    /\ pc # "prompt" => CreateMsg(MountPoint(isoFiles[i])) \in mountedFails
            /\ hist[i].loads = 0
            /\ hist[i].mounts = 0
            /\ hist[i].tried = <<>>
            /\ pc = "returned" => \A j \in Selected : EngineLeft(j)

\* C28 witness: the call has returned with one image's directory creation
\* failed and another image mounted
C28_Witness ==
    /\ pc = "returned"
    /\ \E i, j \in 1..N :
        /\ hist[i].createFailed
        /\ EngineReturned(i)
        /\ hist[j].sets = {"Mounted"}

\* C29: the mount point of an image put into Mounted exists; an invocation
\* that mounted its image never comes to the removal of the mount point; and
\* every step that removes a mount-point directory is the fs::remove of an
\* invocation none of whose mount calls succeeded
C29_MountedKeepsDirectory ==
    /\ [](/\ \A i \in 1..N :
                "Mounted" \in hist[i].sets => MountPoint(isoFiles[i]) \in dirs
          /\ \A w \in 1..maxThreads :
                (At(w, "exhausted") \/ At(w, "insertFailed"))
                    => "Mounted" \notin hist[workers[w].task].sets)
    /\ [][\A mp \in dirs \ dirs' :
            \E w \in 1..maxThreads :
                /\ At(w, "exhausted")
                /\ MountPoint(PathOf(w)) = mp
                /\ "Mounted" \notin hist[workers[w].task].sets]_vars

\* C29 witness: the call has returned with one image mounted, its mount point
\* in place, and the mount point of another, which no type mounts, removed
C29_Witness ==
    /\ pc = "returned"
    /\ \E i, j \in 1..N :
        /\ hist[i].sets = {"Mounted"}
        /\ MountPoint(isoFiles[i]) \in dirs
        /\ hist[j].creates = 1
        /\ hist[j].sets = {"Failed"}
        /\ MountPoint(isoFiles[j]) \notin dirs

\* The step adds an entry to mountedFiles, skippedMessages or mountedFails
InsertsOutcome ==
    \/ mountedFiles' \ mountedFiles # {}
    \/ skippedMessages' \ skippedMessages # {}
    \/ mountedFails' \ mountedFails # {}

\* Worker w is inside a block guarded by lowLock
InBlock(w) == At(w, "insert")

\* C30: every step that adds an entry to mountedFiles, skippedMessages or
\* mountedFails is taken by the worker that holds Mutex4Low; no two workers
\* are inside a block guarded by it at once; and the lock is held by nobody
\* but a worker inside such a block, so by none that is loading a module or
\* making a mount call
C30_InsertsUnderLock ==
    /\ [](/\ \A w, v \in 1..maxThreads : (InBlock(w) /\ InBlock(v)) => w = v
          /\ \A w \in 1..maxThreads : InBlock(w) <=> Mutex4Low = w)
    /\ [][InsertsOutcome => Mutex4Low # 0 /\ InBlock(Mutex4Low)]_vars

\* C30 witness: one worker holds the lock inside its block while the other
\* has made a successful mount call and waits for the lock
C30_Witness ==
    \E w, v \in 1..maxThreads :
        /\ Mutex4Low = w
        /\ InBlock(w)
        /\ At(v, "lock")
        /\ workers[v].put.set = "Mounted"

\* C31: an image that is mountable, for which the engine has returned and
\* which met no fault of its own (not found mounted, directory created,
\* context created, no exception), is in Mounted and in no other set whenever
\* another image of the call is in Failed; and when the call returns the engine
\* has been invoked, and has ended, for every selected image
C31_FailureIsLocal ==
    /\ \A i, j \in 1..N :
        ( /\ i # j
          /\ "Failed" \in hist[i].sets
          /\ EngineLeft(j)
          /\ euid = 0 /\ goodFs[j] # 0
          /\ ~hist[j].wasMounted /\ ~hist[j].createFailed
          /\ ~hist[j].nullCtx /\ ~hist[j].threw )
        => hist[j].sets = {"Mounted"}
    /\ pc = "returned" => \A j \in Selected : EngineLeft(j)

\* No fault was injected, no task threw, and every mounted mount point was
\* mounted by an image of this call: the OS results are those goodFs and euid
\* fix, on a system where nothing was mounted before
FixedResults ==
    /\ faultsLeft = MaxFaults
    /\ \A i \in 1..N : ~hist[i].threw
    /\ \A mp \in mounted :
            \E i \in 1..N : "Mounted" \in hist[i].sets /\ MountPoint(isoFiles[i]) = mp

\* The set and the entry mountIsoFile gives image i when it runs alone with
\* these results: not root, no filesystem type mounts it, or mounted by the
\* first type that does
OwnOutcome(i) ==
    IF NotPrivileged THEN [set |-> "Failed", msg |-> RootMsg(isoFiles[i])]
    ELSE IF goodFs[i] = 0 THEN [set |-> "Failed", msg |-> BadFsMsg(isoFiles[i])]
    ELSE [set |-> "Mounted",
          msg |-> MountedMsg(isoFiles[i], MountPoint(isoFiles[i]), fsTypes[goodFs[i]])]

OutcomeSet(s) == {OwnOutcome(i).msg : i \in {j \in Selected : OwnOutcome(j).set = s}}

\* C32: when a call returns after running with fixed OS results, Mounted,
\* Skipped and Failed hold exactly the entries the selected images' own
\* results determine, whatever the order in which the tasks ran
C32_FinalSetsDetermined ==
    (pc = "returned" /\ FixedResults) =>
        /\ mountedFiles = OutcomeSet("Mounted")
        /\ skippedMessages = OutcomeSet("Skipped")
        /\ mountedFails = OutcomeSet("Failed")

\* The main thread of processAndMountIsoFiles is past the creation of the
\* progress thread
PastThreadStart == pc \in {"waitCheck", "toBlock", "blocked", "signal", "join"}

\* C33 as the specification states it: no task has been submitted while the
\* progress thread has not been started
C33_ProgressBeforeFirstTask == totalTasks > 0 => progress # "none"

\* C33: in mountAllIsoFiles the progress thread has been started whenever a
\* task has been submitted; in processAndMountIsoFiles it has not been started
\* while the scan submits the tasks, it is started in the step that follows
\* the merge of the errors, with every task already submitted, and only if an
\* index was selected
C33_ProgressStartOrder ==
    /\ [](entry = "all" /\ totalTasks > 0 => progress # "none")
    /\ [](entry = "sel" /\ pc \in {"scan", "errors"} => progress = "none")
    /\ [](entry = "sel" /\ PastThreadStart => progress # "none")
    /\ [](entry = "sel" /\ progress # "none" =>
                processedIndices # {} /\ totalTasks = Cardinality(processedIndices))
    /\ [][(entry = "sel" /\ progress = "none" /\ progress' # "none") =>
                (pc = "errors" /\ totalTasks >= 1 /\ totalTasks' = totalTasks)]_vars

\* A task submitted by processAndMountIsoFiles has completed while the scan
\* is not over and the progress thread not started
C33_Witness ==
    entry = "sel" /\ pc \in {"scan", "errors"} /\ completedTasks >= 1 /\ progress = "none"

\* No task is queued and no worker holds one
NoTaskPending == queue = <<>> /\ \A w \in 1..maxThreads : workers[w].task = 0

\* C34: the step that sets the done flag is taken with no task queued or
\* running, with activeTaskCount zero in processAndMountIsoFiles and with
\* every future ready and waited for in mountAllIsoFiles; the flag stays set
\* until the call is over; and the main thread is at the join, and the progress
\* thread is joined, only with the flag set
C34_DoneFlagAfterAllTasks ==
    /\ [][(~isProcessingComplete /\ isProcessingComplete') =>
            /\ NoTaskPending
            /\ entry = "sel" => activeTaskCount = 0 /\ completedTasks = totalTasks
            /\ entry = "all" => ready = 1..N /\ pos = N + 1]_vars
    /\ [][(isProcessingComplete /\ pc # "prompt") => isProcessingComplete']_vars
    /\ [](pc = "join" \/ progress \in {"exited", "joined"} => isProcessingComplete)
    /\ [][(progress # "joined" /\ progress' = "joined") => isProcessingComplete]_vars

\* Both entry points have returned with the progress thread joined after
\* tasks of the call completed
C34_Witness ==
    pc = "returned" /\ progress = "joined" /\ isProcessingComplete /\ completedTasks >= 1

\* C35: in processAndMountIsoFiles activeTaskCount is never negative and
\* completedTasks never exceeds totalTasks; once the scan is over totalTasks
\* is the number of indices in processedIndices; and activeTaskCount is zero
\* exactly when no submitted task is queued or running
C35_CounterInvariants ==
    entry = "sel" =>
        /\ activeTaskCount >= 0
        /\ completedTasks <= totalTasks
        /\ pc # "scan" => totalTasks = Cardinality(processedIndices)
        /\ activeTaskCount = 0 <=> NoTaskPending

\* The tasks of the call that are queued or held by a worker
TasksNotOver == Len(queue) + Cardinality({w \in 1..maxThreads : workers[w].task # 0})

\* C36: in processAndMountIsoFiles activeTaskCount is the number of submitted
\* tasks that are not over, so that every task that is over, however it left
\* the engine, has decremented it once; and the main thread never waits for
\* the counter to reach zero with a positive counter and no task left to
\* decrement it
C36_EveryExitDecrements ==
    entry = "sel" =>
        /\ activeTaskCount = TasksNotOver
        /\ ~(pc \in {"waitCheck", "toBlock", "blocked"} /\ activeTaskCount > 0 /\ TasksNotOver = 0)

\* C37: the buffer readline returned is never freed twice and never read
\* after a free, and whenever an iteration of the main loop is over (the next
\* prompt is reached, or the function has returned) it has been freed once
C37_BufferFreedOnce ==
    /\ inputBuffer.frees <= 1
    /\ ~inputBuffer.readFreed
    /\ (pc \in {"prompt", "left"} /\ inputBuffer.state # "none") => inputBuffer.frees = 1

=============================================================================
